---- MODULE Spec2Model ----
(***************************************************************************)
(* Model of the interaction core of the product viewer:                    *)
(* InteractionManager (src/js/modalManager.js, lines 166-681) together     *)
(* with the parts of App (src/unnamed/part_000) that construct it, feed    *)
(* it the draggable list and drive it once per render frame, and App's     *)
(* model registry, AR tap-to-place state machine and touch rotation.       *)
(*                                                                         *)
(* Vectors are integer triples <<x, y, z>> written in the camera's own     *)
(* axes (the drag plane's normal, (0,0,1) rotated by the camera            *)
(* quaternion, is the z axis).  Orientations are unit quaternions          *)
(* <<x, y, z, w>> taken from the quaternion group {+-1, +-i, +-j, +-k},    *)
(* on which the Hamilton product is exact.                                 *)
(***************************************************************************)
EXTENDS Integers, Sequences, FiniteSets, TLC

VARIABLES
  loadedModels,              \* App.loadedModels: names in insertion order
  productGroupChildren,      \* children of App.productGroup
  position,                  \* object name -> Object3D.position
  quaternion,                \* object name -> Object3D.quaternion
  scale,                     \* object name -> Object3D.scale, uniform
  controllerPosition,        \* controller -> world position (matrixWorld)
  controllerQuaternion,      \* controller -> quaternion
  isMobile,                  \* navigator.userAgent matches /Mobi/
  isHost,                    \* window.app.isHost is truthy
  socket,                    \* window.app.socket is truthy
  emitted,                   \* what the latest pointer-move handler emitted
  isXRSessionActive,
  rotationMode,
  startControllerQuaternion,
  startObjectQuaternion,
  selectedObject,
  activeController,
  lastControllerPosition,
  draggableObjects,
  isDragging,
  mouse,                     \* normalized device coordinates <<x, y>>
  lastMousePosition,         \* client coordinates <<x, y>>
  lastDragPoint,
  orbitControls,             \* InteractionManager.orbitControls flags
  appOrbitControls,          \* App.orbitControls flags
  orbitUpdates,              \* orbit instances updated by the latest frame
  ev,                        \* the handler that ran last
  hDrag,                     \* history of the open drag session
  hRot,                      \* history of the entry into rotation mode
  hNames,                    \* names registered since the latest clear
  hSel,                      \* history of the open controller selection
  hEnded,                    \* a session ended while its chain was pending
  hBatch,                    \* history of the latest load batch
  hModal,                    \* history of the modals' auto-timeout callbacks
  modalOverlay,              \* the module's modal overlay element
  modalCalls,                \* the modals shown so far, with their timers
  created,                   \* containers created by a load so far
  xrSession,                 \* renderer.xr.getSession() is not null
  isARMode,
  isPlacingProduct,
  productGroupVisible,       \* App.productGroup.visible
  productGroupPosition,      \* App.productGroup.position, world axes
  productGroupRotationY,     \* App.productGroup.rotation.y, in 1/100 rad
  floor,                     \* App.floor: material, visible, position
  hitTestSource,             \* Null, or the handle of the current session
  hitTestRequests,           \* the pending request of the negotiation chain
  hitTestResults,            \* what the XR runtime reports for this frame
  placementReticle,          \* Null, "hidden" or "visible"
  placementMessage,          \* Null, or style.display
  placeAgainButton,          \* Null, or style.display
  rotateLeftBtn,             \* Null, or style.display
  rotateRightBtn,            \* Null, or style.display
  selectListeners,           \* 'select' listeners on the XR session
  lastTouchAngle,
  touchStartX,
  initialRotationY,
  isSingleTouchRotating,
  loadingOverlay,            \* style.display of #loading-overlay
  batches,                   \* running load batches, each awaiting a load
  loadResult,                \* how the latest loadModel promise settled
  alerts,                    \* calls of window.alert so far
  browseModal                \* "closed", "fetching" or "open"

vars == << loadedModels, productGroupChildren, position, quaternion, scale,
           controllerPosition, controllerQuaternion, isMobile, isHost,
           socket, emitted,
           isXRSessionActive, rotationMode, startControllerQuaternion,
           startObjectQuaternion, selectedObject, activeController,
           lastControllerPosition, draggableObjects, isDragging, mouse,
           lastMousePosition, lastDragPoint, orbitControls,
           appOrbitControls, orbitUpdates, ev, hDrag, hRot, hNames, hSel,
           hEnded, hBatch, hModal, modalOverlay, modalCalls, created,
           xrSession, isARMode, isPlacingProduct, productGroupVisible,
           productGroupPosition, productGroupRotationY, floor,
           hitTestSource, hitTestRequests, hitTestResults,
           placementReticle, placementMessage, placeAgainButton,
           rotateLeftBtn, rotateRightBtn, selectListeners, lastTouchAngle,
           touchStartX, initialRotationY, isSingleTouchRotating,
           loadingOverlay, batches, loadResult, alerts, browseModal >>

----------------------------------------------------------------------------
(* Bounds and input sets *)

MaxCoord == 2

InnerWidth == 1

InnerHeight == 2

CameraDistance == 1

ObjectNames == {"blade", "frame"}

\* the container a second load under the same name creates
SecondContainer(name) == IF name = "blade" THEN "blade.2" ELSE "frame.2"

Containers == ObjectNames \cup {SecondContainer(name) : name \in ObjectNames}

\* container.name
NameOf(container) ==
  IF container \in {"blade", "blade.2"} THEN "blade" ELSE "frame"

Controllers == {"controller-right", "controller-left"}

Null == "null"

NoPoint == << >>

\* a numeric field that holds null; the number n is held as <<n>>
NoNumber == << >>

ClientXs == 0..InnerWidth

ClientYs == {InnerHeight \div 2}

ZeroVector == <<0, 0, 0>>

IdentityQuaternion == <<0, 0, 0, 1>>

ControllerQuaternions == {IdentityQuaternion, <<1, 0, 0, 0>>, <<0, 1, 0, 0>>}

InBounds(v) == \A n \in 1..3 : v[n] >= -MaxCoord /\ v[n] <= MaxCoord

----------------------------------------------------------------------------
(* Vector and quaternion arithmetic *)

AddVectors(a, b) == <<a[1] + b[1], a[2] + b[2], a[3] + b[3]>>

SubVectors(a, b) == <<a[1] - b[1], a[2] - b[2], a[3] - b[3]>>

MultiplyScalar(v, s) == <<v[1] * s, v[2] * s, v[3] * s>>

MultiplyQuaternions(a, b) ==
  << a[1] * b[4] + a[4] * b[1] + a[2] * b[3] - a[3] * b[2],
     a[2] * b[4] + a[4] * b[2] + a[3] * b[1] - a[1] * b[3],
     a[3] * b[4] + a[4] * b[3] + a[1] * b[2] - a[2] * b[1],
     a[4] * b[4] - a[1] * b[1] - a[2] * b[2] - a[3] * b[3] >>

InvertQuaternion(q) == << -q[1], -q[2], -q[3], q[4] >>

----------------------------------------------------------------------------
(* Scene graph and hit testing *)

MeshOf(container) ==
  CASE container = "blade" -> "blade.mesh"
    [] container = "frame" -> "frame.mesh"
    [] container = "blade.2" -> "blade.2.mesh"
    [] container = "frame.2" -> "frame.2.mesh"

Includes(list, x) == \E n \in 1..Len(list) : list[n] = x

Parent(object) ==
  CASE object = "blade.mesh" -> "blade"
    [] object = "frame.mesh" -> "frame"
    [] object = "blade.2.mesh" -> "blade.2"
    [] object = "frame.2.mesh" -> "frame.2"
    [] object \in Containers ->
         IF object \in productGroupChildren THEN "productGroup" ELSE Null
    [] object = "productGroup" -> "scene"
    [] object = "floor" -> "scene"
    [] OTHER -> Null

RECURSIVE WalkUp(_, _)
WalkUp(object, top) ==
  IF object = Null THEN top
  ELSE LET t == IF Includes(draggableObjects, object) THEN object ELSE top
       IN  IF object = "scene" THEN t ELSE WalkUp(Parent(object), t)

TopLevelDraggable(hit) == IF hit = Null THEN Null ELSE WalkUp(hit, Null)

\* what raycaster.intersectObjects(this.draggableObjects, true) can report
PointerHits ==
  {Null} \cup {draggableObjects[n] : n \in 1..Len(draggableObjects)}
         \cup {MeshOf(draggableObjects[n]) : n \in 1..Len(draggableObjects)}

\* what raycaster.intersectObjects(this.scene.children, true) can report
SceneHits ==
  {Null, "floor"} \cup productGroupChildren
                  \cup {MeshOf(o) : o \in productGroupChildren}

Ndc(x, y) == << (x * 2) \div InnerWidth - 1, 1 - (y * 2) \div InnerHeight >>

CameraPosition == <<0, 0, CameraDistance>>

\* ray through the pointer against the plane through planePoint whose
\* normal is the camera's z axis; NoPoint when the plane is behind the ray
IntersectPlane(ndc, planePoint) ==
  LET t == CameraPosition[3] - planePoint[3]
  IN  IF t < 0 THEN NoPoint
      ELSE << CameraPosition[1] + ndc[1] * t,
              CameraPosition[2] + ndc[2] * t,
              planePoint[3] >>

----------------------------------------------------------------------------
(* Orbit controls *)

Suspended == [enabled |-> FALSE, enableRotate |-> FALSE,
              enablePan |-> FALSE, enableZoom |-> FALSE]

Resumed == [enabled |-> TRUE, enableRotate |-> TRUE,
            enablePan |-> TRUE, enableZoom |-> TRUE]

AppIsDragging == FALSE

\* the opaque ground plane createFloor makes, and the shadow-only plane
\* onARSessionStart replaces it with
BrowserFloor ==
  [material |-> "browser", visible |-> TRUE, position |-> ZeroVector]

ShadowFloor ==
  [material |-> "shadow", visible |-> FALSE, position |-> ZeroVector]


TouchCounts == {1, 2}

\* modals shown in one run
MaxModals == 3

\* `let modalOverlay = null`, held as an element that is not created yet;
\* interval and timeout hold a timer id, 0 for null; timer is the number
\* the countdown text shows
NoModalOverlay ==
  [created |-> FALSE, display |-> "none", interval |-> 0, timeout |-> 0,
   timer |-> NoNumber]

----------------------------------------------------------------------------
(* Initial state: the state after App's constructor has run.  The          *)
(* InteractionManager is constructed before window.app is assigned, so     *)
(* setupOrbitControls creates an orbit-control instance of its own.        *)

\* App's constructor never writes isHost or socket: the page that embeds the
\* viewer may
Constructed ==
  /\ loadedModels = << >>
  /\ productGroupChildren = {}
  /\ position = [o \in Containers |-> ZeroVector]
  /\ quaternion = [o \in Containers |-> IdentityQuaternion]
  /\ scale = [o \in Containers |-> 1]
  /\ controllerPosition = [c \in Controllers |-> ZeroVector]
  /\ controllerQuaternion = [c \in Controllers |-> IdentityQuaternion]
  /\ isMobile \in BOOLEAN
  /\ emitted = << >>
  /\ isXRSessionActive = FALSE
  /\ rotationMode = FALSE
  /\ startControllerQuaternion = IdentityQuaternion
  /\ startObjectQuaternion = IdentityQuaternion
  /\ selectedObject = Null
  /\ activeController = Null
  /\ lastControllerPosition = ZeroVector
  /\ draggableObjects = << >>
  /\ isDragging = FALSE
  /\ mouse = <<0, 0>>
  /\ lastMousePosition = <<0, 0>>
  /\ lastDragPoint = NoPoint
  /\ orbitControls = Resumed
  /\ appOrbitControls = Resumed
  /\ orbitUpdates = {}
  /\ ev = [op |-> "init", ctrl |-> Null, wasDragging |-> FALSE]
  /\ hDrag = [obj |-> Null, pre |-> ZeroVector, p0 |-> NoPoint]
  /\ hRot = [c0 |-> IdentityQuaternion, o0 |-> IdentityQuaternion]
  /\ hNames = {}
  /\ hSel = [obj |-> Null, pre |-> ZeroVector, c0 |-> ZeroVector,
             prev |-> ZeroVector]
  /\ hEnded = FALSE
  /\ hBatch = [pos |-> 0, objs |-> {}, overlapped |-> FALSE]
  /\ hModal = [runs |-> [n \in 1..MaxModals |-> 0], dismissed |-> 0]
  /\ modalOverlay = NoModalOverlay
  /\ modalCalls = << >>
  /\ created = {}
  /\ xrSession = FALSE
  /\ isARMode = FALSE
  /\ isPlacingProduct = FALSE
  /\ productGroupVisible = TRUE
  /\ productGroupPosition = ZeroVector
  /\ productGroupRotationY = 0
  /\ floor = BrowserFloor
  /\ hitTestSource = Null
  /\ hitTestRequests = {}
  /\ hitTestResults = NoPoint
  /\ placementReticle = Null
  /\ placementMessage = Null
  /\ placeAgainButton = Null
  /\ rotateLeftBtn = Null
  /\ rotateRightBtn = Null
  /\ selectListeners = 0
  /\ lastTouchAngle = NoNumber
  /\ touchStartX = NoNumber
  /\ initialRotationY = 0
  /\ isSingleTouchRotating = FALSE
  /\ loadingOverlay = "none"
  /\ batches = << >>
  /\ loadResult = Null
  /\ alerts = 0
  /\ browseModal = "closed"

\* the viewer on its own: no host flag and no collaboration channel
Init ==
  /\ Constructed
  /\ isHost = FALSE
  /\ socket = FALSE

\* the same on a device whose user agent does not match /Mobi/
InitDesktop == Init /\ ~isMobile

\* the viewer embedded with or without the host flag and the channel
InitCollaboration ==
  /\ Constructed
  /\ ~isMobile
  /\ isHost \in BOOLEAN
  /\ socket \in BOOLEAN

Track(op, c) == ev' = [op |-> op, ctrl |-> c, wasDragging |-> isDragging]

\* the modal of modalManager.js, which no handler of the viewer calls
modalVars == << modalOverlay, modalCalls >>

\* the collaboration hook: the flags handleDrag reads and what it emitted
channelVars == << isHost, socket, emitted >>

sceneVars == << loadedModels, productGroupChildren, draggableObjects,
               created >>

objectVars == << position, quaternion, scale >>

controllerVars == << controllerPosition, controllerQuaternion >>

xrVars == << isXRSessionActive, rotationMode, startControllerQuaternion,
             startObjectQuaternion, activeController,
             lastControllerPosition >>

orbitVars == << orbitControls, appOrbitControls >>

placementVars == << xrSession, isARMode, isPlacingProduct,
                   productGroupVisible, productGroupPosition, floor,
                   hitTestSource, hitTestRequests, hitTestResults,
                   placementReticle, placementMessage, placeAgainButton,
                   rotateLeftBtn, rotateRightBtn, selectListeners >>

touchVars == << lastTouchAngle, touchStartX, initialRotationY,
               isSingleTouchRotating >>

loadVars == << loadingOverlay, batches, loadResult, alerts, browseModal >>

appVars == << placementVars, productGroupRotationY, touchVars, loadVars >>

----------------------------------------------------------------------------
(* App: a model finished loading *)

\* the container a load under this name creates
NewContainer(name) ==
  IF name \in created THEN SecondContainer(name) ELSE name

\* Map.set: a key that is already present keeps its place and gets the new
\* value, a new key goes to the end
MapSet(models, container) ==
  IF \E n \in 1..Len(models) : NameOf(models[n]) = NameOf(container)
  THEN [n \in 1..Len(models) |->
          IF NameOf(models[n]) = NameOf(container) THEN container
          ELSE models[n]]
  ELSE Append(models, container)

LoadModel(name) ==
  /\ NewContainer(name) \notin created
  /\ created' = created \cup {NewContainer(name)}
  /\ productGroupChildren' = productGroupChildren \cup {NewContainer(name)}
  /\ loadedModels' = MapSet(loadedModels, NewContainer(name))
  /\ draggableObjects' = loadedModels'
  /\ orbitUpdates' = {"app", "interaction"}
  /\ Track("loadModel", Null)
  /\ UNCHANGED << objectVars, controllerVars, isMobile, channelVars, modalVars, xrVars,
                  selectedObject, isDragging, mouse, lastMousePosition,
                  lastDragPoint, orbitVars >>

\* a clear that does not hand the emptied registry to the core
UpdateDragControlsNever == UNCHANGED draggableObjects

\* updateDragControls: setDraggableObjects(Array.from(loadedModels.values()))
UpdateDragControls == draggableObjects' = loadedModels'

ClearExistingModels ==
  /\ productGroupChildren' =
       productGroupChildren \ {loadedModels[n] : n \in 1..Len(loadedModels)}
  /\ loadedModels' = << >>
  /\ UpdateDragControls
  /\ orbitUpdates' = {}
  /\ Track("clearExistingModels", Null)
  /\ UNCHANGED << created, objectVars, controllerVars, isMobile, channelVars, modalVars, xrVars,
                  selectedObject, isDragging, mouse, lastMousePosition,
                  lastDragPoint, orbitVars >>

----------------------------------------------------------------------------
(* Camera-orbit suspension *)

\* a suspension that reaches only the interaction core's own instance
DisableOwnOrbitControlsOnly ==
  /\ orbitControls' = Suspended
  /\ appOrbitControls' = appOrbitControls

DisableOrbitControls ==
  /\ orbitControls' = Suspended
  /\ appOrbitControls' = Suspended

EnableOrbitControls ==
  /\ orbitControls' = Resumed
  /\ appOrbitControls' = Resumed

----------------------------------------------------------------------------
(* Pointer / touch path *)

\* the part of onMouseDown / onTouchStart after the ray cast
StartDrag(x, y, hit) ==
  LET topLevelDraggable == TopLevelDraggable(hit)
  IN  IF topLevelDraggable # Null
      THEN /\ DisableOrbitControls
           /\ isDragging' = TRUE
           /\ selectedObject' = topLevelDraggable
           /\ lastMousePosition' = <<x, y>>
           /\ lastDragPoint' = NoPoint
      ELSE UNCHANGED << orbitVars, isDragging, selectedObject,
                        lastMousePosition, lastDragPoint >>

OnMouseDown(x, y, hit) ==
  /\ hit \in PointerHits
  /\ Track("mouseDown", Null)
  /\ IF isXRSessionActive
     THEN UNCHANGED << mouse, orbitVars, isDragging, selectedObject,
                       lastMousePosition, lastDragPoint >>
     ELSE /\ mouse' = Ndc(x, y)
          /\ StartDrag(x, y, hit)
  /\ orbitUpdates' = {}
  /\ UNCHANGED << sceneVars, objectVars, controllerVars, isMobile, channelVars, modalVars, xrVars >>

OnTouchStart(touches, x, y, hit) ==
  /\ hit \in PointerHits
  /\ Track("touchStart", Null)
  /\ IF isXRSessionActive \/ touches # 1
     THEN UNCHANGED << mouse, orbitVars, isDragging, selectedObject,
                       lastMousePosition, lastDragPoint >>
     ELSE /\ mouse' = Ndc(x, y)
          /\ StartDrag(x, y, hit)
  /\ orbitUpdates' = {}
  /\ UNCHANGED << sceneVars, objectVars, controllerVars, isMobile, channelVars, modalVars, xrVars >>

\* container.userData holds isDraggable only: no load stores an original
\* scale
OriginalScale(object) == NoNumber

\* `if (userData.originalScale) scale.copy(userData.originalScale)`
PreserveOriginalScale ==
  scale' = IF OriginalScale(selectedObject) # NoNumber
           THEN [scale EXCEPT
                   ![selectedObject] = OriginalScale(selectedObject)[1]]
           ELSE scale

\* a drag that carries every draggable object along
MoveEveryDraggable(dragDelta) ==
  position' = [o \in Containers |->
                 IF Includes(draggableObjects, o)
                 THEN AddVectors(position[selectedObject], dragDelta)
                 ELSE position[o]]

\* this.selectedObject.position.add(dragDelta)
MoveSelected(dragDelta) ==
  position' = [position EXCEPT
                 ![selectedObject] =
                   AddVectors(position[selectedObject], dragDelta)]

\* the payload of 'model-transform', built after the move
TransformUpdate(object) ==
  [customId |-> NameOf(object),
   position |-> position'[object],
   rotation |-> quaternion[object],
   scale |-> scale'[object]]

\* a handler that emits nothing
EmitNothing == emitted' = << >>

\* a drag update that emits without asking whether the app is host
EmitWithoutHost == emitted' = << TransformUpdate(selectedObject) >>

\* `if (window.app && window.app.isHost && window.app.socket) emit(...)`
EmitModelTransform ==
  emitted' = IF isHost /\ socket
             THEN << TransformUpdate(selectedObject) >>
             ELSE << >>

\* handleDrag, called with this.mouse already set to ndc
HandleDrag(clientX, clientY, ndc) ==
  IF selectedObject = Null
  THEN /\ UNCHANGED << lastMousePosition, lastDragPoint, position, scale >>
       /\ EmitNothing
  ELSE /\ lastMousePosition' = <<clientX, clientY>>
       /\ LET intersectionPoint ==
                IntersectPlane(ndc, position[selectedObject])
          IN  IF intersectionPoint = NoPoint
              THEN /\ UNCHANGED << lastDragPoint, position, scale >>
                   /\ EmitNothing
              ELSE IF lastDragPoint = NoPoint
                   THEN /\ lastDragPoint' = intersectionPoint
                        /\ UNCHANGED << position, scale >>
                        /\ EmitNothing
                   ELSE LET dragDelta ==
                              SubVectors(intersectionPoint, lastDragPoint)
                            moved ==
                              AddVectors(position[selectedObject], dragDelta)
                        IN  /\ InBounds(moved)
                            /\ MoveSelected(dragDelta)
                            /\ PreserveOriginalScale
                            /\ EmitModelTransform
                            /\ lastDragPoint' = intersectionPoint

OnMouseMove(x, y) ==
  /\ Track("mouseMove", Null)
  /\ mouse' = Ndc(x, y)
  /\ IF isDragging /\ selectedObject # Null
     THEN HandleDrag(x, y, Ndc(x, y))
     ELSE /\ UNCHANGED << lastMousePosition, lastDragPoint, position,
                          scale >>
          /\ EmitNothing
  /\ orbitUpdates' = {}
  /\ UNCHANGED << sceneVars, quaternion, controllerVars, isMobile, isHost,
                  socket, modalVars, xrVars, selectedObject, isDragging,
                  orbitVars >>

OnTouchMove(touches, x, y) ==
  /\ Track("touchMove", Null)
  /\ IF ~isDragging \/ selectedObject = Null \/ touches # 1
     THEN /\ UNCHANGED << mouse, lastMousePosition, lastDragPoint, position,
                          scale >>
          /\ EmitNothing
     ELSE /\ mouse' = Ndc(x, y)
          /\ HandleDrag(x, y, Ndc(x, y))
  /\ orbitUpdates' = {}
  /\ UNCHANGED << sceneVars, quaternion, controllerVars, isMobile, isHost,
                  socket, modalVars, xrVars, selectedObject, isDragging,
                  orbitVars >>

\* a release that forgets to clear the selected object
EndDragKeepingSelection ==
  IF isDragging
  THEN /\ EnableOrbitControls
       /\ isDragging' = FALSE
       /\ lastDragPoint' = NoPoint
       /\ UNCHANGED selectedObject
  ELSE UNCHANGED << orbitVars, isDragging, selectedObject, lastDragPoint >>

\* the body shared by onMouseUp and onTouchEnd
EndDrag ==
  IF isDragging
  THEN /\ EnableOrbitControls
       /\ isDragging' = FALSE
       /\ selectedObject' = Null
       /\ lastDragPoint' = NoPoint
  ELSE UNCHANGED << orbitVars, isDragging, selectedObject, lastDragPoint >>

OnMouseUp ==
  /\ Track("mouseUp", Null)
  /\ EndDrag
  /\ orbitUpdates' = {}
  /\ UNCHANGED << sceneVars, objectVars, controllerVars, isMobile, channelVars, modalVars, xrVars,
                  mouse, lastMousePosition >>

\* touchend and touchcancel are both bound to onTouchEnd
OnTouchEnd ==
  /\ Track("touchEnd", Null)
  /\ EndDrag
  /\ orbitUpdates' = {}
  /\ UNCHANGED << sceneVars, objectVars, controllerVars, isMobile, channelVars, modalVars, xrVars,
                  mouse, lastMousePosition >>

----------------------------------------------------------------------------
(* XR path *)

\* the listeners the constructor puts on renderer.xr
OnSessionStart ==
  /\ ~isXRSessionActive
  /\ isXRSessionActive' = TRUE
  /\ Track("sessionStart", Null)
  /\ orbitUpdates' = {}
  /\ UNCHANGED << sceneVars, objectVars, controllerVars, isMobile, channelVars, modalVars,
                  rotationMode, startControllerQuaternion,
                  startObjectQuaternion, selectedObject, activeController,
                  lastControllerPosition, isDragging, mouse,
                  lastMousePosition, lastDragPoint, orbitVars >>

OnSessionEnd ==
  /\ isXRSessionActive
  /\ isXRSessionActive' = FALSE
  /\ rotationMode' = FALSE
  /\ Track("sessionEnd", Null)
  /\ orbitUpdates' = {}
  /\ UNCHANGED << sceneVars, objectVars, controllerVars, isMobile, channelVars, modalVars,
                  startControllerQuaternion, startObjectQuaternion,
                  selectedObject, activeController, lastControllerPosition,
                  isDragging, mouse, lastMousePosition, lastDragPoint,
                  orbitVars >>

\* the XR runtime moves a controller while a session is presenting
ControllerPose(c, p, q) ==
  /\ isXRSessionActive
  /\ << p, q >> # << controllerPosition[c], controllerQuaternion[c] >>
  /\ controllerPosition' = [controllerPosition EXCEPT ![c] = p]
  /\ controllerQuaternion' = [controllerQuaternion EXCEPT ![c] = q]
  /\ Track("controllerPose", c)
  /\ orbitUpdates' = {}
  /\ UNCHANGED << sceneVars, objectVars, isMobile, channelVars, modalVars, xrVars, selectedObject,
                  isDragging, mouse, lastMousePosition, lastDragPoint,
                  orbitVars >>

OnControllerSelectStart(controller, hit) ==
  /\ hit \in SceneHits
  /\ Track("selectStart", controller)
  /\ orbitUpdates' = {}
  /\ LET topLevelDraggable == TopLevelDraggable(hit)
     IN  IF topLevelDraggable # Null
         THEN /\ selectedObject' = topLevelDraggable
              /\ activeController' = controller
              /\ lastControllerPosition' = controllerPosition[controller]
         ELSE UNCHANGED << selectedObject, activeController,
                           lastControllerPosition >>
  /\ UNCHANGED << sceneVars, objectVars, controllerVars, isMobile, channelVars, modalVars,
                  isXRSessionActive, rotationMode,
                  startControllerQuaternion, startObjectQuaternion,
                  isDragging, mouse, lastMousePosition, lastDragPoint,
                  orbitVars >>

OnControllerSelectEnd(controller) ==
  /\ selectedObject' = Null
  /\ activeController' = Null
  /\ rotationMode' = FALSE
  /\ Track("selectEnd", controller)
  /\ orbitUpdates' = {}
  /\ UNCHANGED << sceneVars, objectVars, controllerVars, isMobile, channelVars, modalVars,
                  isXRSessionActive, startControllerQuaternion,
                  startObjectQuaternion, lastControllerPosition, isDragging,
                  mouse, lastMousePosition, lastDragPoint, orbitVars >>

OnControllerSqueezeStart(controller) ==
  /\ Track("squeezeStart", controller)
  /\ orbitUpdates' = {}
  /\ IF selectedObject # Null
     THEN /\ rotationMode' = TRUE
          /\ startControllerQuaternion' = controllerQuaternion[controller]
          /\ startObjectQuaternion' = quaternion[selectedObject]
     ELSE UNCHANGED << rotationMode, startControllerQuaternion,
                       startObjectQuaternion >>
  /\ UNCHANGED << sceneVars, objectVars, controllerVars, isMobile, channelVars, modalVars,
                  isXRSessionActive, selectedObject, activeController,
                  lastControllerPosition, isDragging, mouse,
                  lastMousePosition, lastDragPoint, orbitVars >>

OnControllerSqueezeEnd(controller) ==
  /\ rotationMode' = FALSE
  /\ Track("squeezeEnd", controller)
  /\ orbitUpdates' = {}
  /\ UNCHANGED << sceneVars, objectVars, controllerVars, isMobile, channelVars, modalVars,
                  isXRSessionActive, startControllerQuaternion,
                  startObjectQuaternion, selectedObject, activeController,
                  lastControllerPosition, isDragging, mouse,
                  lastMousePosition, lastDragPoint, orbitVars >>

----------------------------------------------------------------------------
(* Render frame *)

XRManipulation ==
  selectedObject # Null /\ activeController # Null /\ isXRSessionActive

\* InteractionManager.update: the object transform it writes
UpdateObject ==
  IF XRManipulation
  THEN IF rotationMode
       THEN LET deltaQuaternion ==
                  MultiplyQuaternions(
                    controllerQuaternion[activeController],
                    InvertQuaternion(startControllerQuaternion))
                newObjectQuaternion ==
                  MultiplyQuaternions(deltaQuaternion,
                                      startObjectQuaternion)
            IN  /\ quaternion' = [quaternion EXCEPT
                                    ![selectedObject] = newObjectQuaternion]
                /\ UNCHANGED << position, lastControllerPosition >>
       ELSE LET currentPosition == controllerPosition[activeController]
                difference ==
                  SubVectors(currentPosition, lastControllerPosition)
                delta == IF isMobile THEN MultiplyScalar(difference, 2)
                         ELSE difference
                moved == AddVectors(position[selectedObject], delta)
            IN  /\ InBounds(moved)
                /\ position' = [position EXCEPT ![selectedObject] = moved]
                /\ lastControllerPosition' = currentPosition
                /\ UNCHANGED quaternion
  ELSE UNCHANGED << position, quaternion, lastControllerPosition >>

\* the orbit instances whose update() one frame invokes
FrameOrbitUpdates ==
  (IF ~AppIsDragging THEN {"app"} ELSE {})
    \cup (IF ~isXRSessionActive THEN {"interaction"} ELSE {})

\* the animation-loop callback: App's orbit update, then
\* InteractionManager.update
Frame ==
  /\ Track("frame", Null)
  /\ orbitUpdates' = FrameOrbitUpdates
  /\ UpdateObject
  /\ UNCHANGED << scale, sceneVars, controllerVars, isMobile, channelVars, modalVars,
                  isXRSessionActive,
                  rotationMode, startControllerQuaternion,
                  startObjectQuaternion, selectedObject, activeController,
                  isDragging, mouse, lastMousePosition, lastDragPoint,
                  orbitVars >>

----------------------------------------------------------------------------
(* App: AR tap-to-place.  World axes, y up; with the camera held level the *)
(* y axis of the containers' positions is the world's up axis.             *)

MaxYaw == 20

\* hit poses the XR runtime can report: two surfaces at different heights
HitPoses == {<<0, 0, 0>>, <<1, 1, 0>>}

HitTestResultSets == {NoPoint} \cup HitPoses

\* vertical extent of a loaded mesh about its container's origin
MeshMinY == -1

MeshMaxY == 1

\* every field of the interaction core and of the scene graph
coreVars == << sceneVars, objectVars, controllerVars, isMobile, channelVars, modalVars, xrVars,
               selectedObject, isDragging, mouse, lastMousePosition,
               lastDragPoint, orbitVars >>

\* `if (element) element.style.display = value`
Display(element, value) == IF element = Null THEN Null ELSE value

Min(S) == CHOOSE m \in S : \A n \in S : m <= n

\* lowest point of a container in the product group's frame: half a turn
\* about the x or the z axis turns the mesh upside down
LocalMinY(container) ==
  position[container][2]
    + (IF quaternion[container][1] # 0 \/ quaternion[container][3] # 0
       THEN -MeshMaxY ELSE MeshMinY)

\* new THREE.Box3().setFromObject(this.productGroup).min.y: the box is
\* taken in world space, the group's own position included
BoxMinY(groupPosition) ==
  groupPosition[2] + Min({LocalMinY(c) : c \in productGroupChildren})

\* a product group that is left as it is
KeepProductGroup == UNCHANGED productGroupVisible

\* `if (this.productGroup) this.productGroup.visible = false`
HideProductGroup == productGroupVisible' = FALSE

\* rotation buttons that are left as they are
KeepRotationButtons == UNCHANGED << rotateLeftBtn, rotateRightBtn >>

\* `if (this.rotateLeftBtn) ...display = 'none'`, and the same on the right
HideRotationButtons ==
  /\ rotateLeftBtn' = Display(rotateLeftBtn, "none")
  /\ rotateRightBtn' = Display(rotateRightBtn, "none")

\* App's listener of renderer.xr 'sessionstart'
OnARSessionStart ==
  /\ ~xrSession
  /\ xrSession' = TRUE
  /\ isARMode' = TRUE
  /\ isPlacingProduct' = TRUE
  /\ HideProductGroup
  /\ floor' = ShadowFloor
  /\ placementReticle' =
       IF placementReticle = Null THEN "hidden" ELSE placementReticle
  /\ placementMessage' = "block"
  /\ placeAgainButton' = "none"
  /\ rotateLeftBtn' = "none"
  /\ rotateRightBtn' = "none"
  /\ hitTestRequests' = {"local-floor"}
  /\ selectListeners' = selectListeners + 1
  /\ UNCHANGED << productGroupPosition, hitTestSource, hitTestResults,
                  productGroupRotationY, touchVars >>

\* a session end that leaves the hit-test handle as it is
KeepHitTestSource == UNCHANGED hitTestSource

\* the 'end' listener onARSessionStart put on the session
TearDownHitTest == hitTestSource' = Null

\* App's listener of renderer.xr 'sessionend', and the 'end' listener
\* onARSessionStart put on the session; the XR runtime rejects the promises
\* of the session that are still pending, which the chain's last catch logs
OnARSessionEnd ==
  /\ xrSession
  /\ xrSession' = FALSE
  /\ isARMode' = FALSE
  /\ HideRotationButtons
  /\ TearDownHitTest
  /\ hitTestRequests' = {}
  /\ hitTestResults' = NoPoint
  /\ selectListeners' = 0
  /\ UNCHANGED << isPlacingProduct, productGroupVisible,
                  productGroupPosition, floor, placementReticle,
                  placementMessage, placeAgainButton, productGroupRotationY,
                  touchVars >>

\* the reference frames the chain asks for, in its order
ReferenceSpaceTypes == {"local-floor", "viewer"}

\* a step of the chain that leaves the hit-test handle as it is
NegotiationStep(op) ==
  /\ Track(op, Null)
  /\ orbitUpdates' = {}
  /\ UNCHANGED << coreVars, xrSession, isARMode, isPlacingProduct,
                  productGroupVisible, productGroupPosition, floor,
                  hitTestResults, placementReticle, placementMessage,
                  placeAgainButton, rotateLeftBtn, rotateRightBtn,
                  selectListeners, productGroupRotationY, touchVars >>

\* session.requestReferenceSpace(type) is fulfilled: the chain goes on to
\* session.requestHitTestSource({ space })
ReferenceSpaceResolved(type) ==
  /\ type \in hitTestRequests
  /\ hitTestRequests' = {"source"}
  /\ UNCHANGED hitTestSource
  /\ NegotiationStep("referenceSpace")

\* what the chain requests after requestReferenceSpace(type) is rejected:
\* 'viewer' after 'local-floor'; after 'viewer' the last catch logs
FallbackRequest(type) == IF type = "local-floor" THEN {"viewer"} ELSE {}

ReferenceSpaceRejected(type) ==
  /\ type \in hitTestRequests
  /\ hitTestRequests' = FallbackRequest(type)
  /\ UNCHANGED hitTestSource
  /\ NegotiationStep("referenceSpaceFailed")

\* session.requestHitTestSource is fulfilled
ResolveHitTestSource ==
  /\ "source" \in hitTestRequests
  /\ hitTestSource' = "current"
  /\ hitTestRequests' = {}
  /\ NegotiationStep("hitTestSource")

\* session.requestHitTestSource is rejected: the last catch logs
RejectHitTestSource ==
  /\ "source" \in hitTestRequests
  /\ hitTestRequests' = {}
  /\ UNCHANGED hitTestSource
  /\ NegotiationStep("hitTestFailed")

\* the XR runtime: the viewer's ray meets another surface, or none
HitTestUpdate(results) ==
  /\ xrSession
  /\ results # hitTestResults
  /\ hitTestResults' = results
  /\ Track("hitTest", Null)
  /\ orbitUpdates' = {}
  /\ UNCHANGED << coreVars, xrSession, isARMode, isPlacingProduct,
                  productGroupVisible, productGroupPosition, floor,
                  hitTestSource, hitTestRequests, placementReticle,
                  placementMessage, placeAgainButton, rotateLeftBtn,
                  rotateRightBtn, selectListeners, productGroupRotationY,
                  touchVars >>

\* a placement that leaves the group where it stands on the ground
PlaceAtPoseHeightOnly(pose) ==
  LET offsetY == BoxMinY(productGroupPosition)
  IN  << productGroupPosition[1], pose[2] - offsetY,
         productGroupPosition[3] >>

\* where onSelectEvent puts the product group for a hit pose
PlaceAtPose(pose) ==
  LET offsetY == BoxMinY(productGroupPosition)
  IN  << pose[1], pose[2] - offsetY, pose[3] >>

\* a commit test that does not ask for the hit-test handle
CommitTapHitsWithoutHandle ==
  isPlacingProduct /\ hitTestResults # NoPoint

\* the conditions under which onSelectEvent places the product group
CommitTapHits ==
  /\ isPlacingProduct
  /\ hitTestSource # Null
  /\ hitTestResults # NoPoint

\* a commit that leaves its listener on the session
KeepCommitTapArmed == UNCHANGED selectListeners

\* session.removeEventListener('select', this.onSelectEventBound)
DisarmCommitTap == selectListeners' = selectListeners - 1

\* the session's 'select' event reaches the registered listener
OnSelectEvent ==
  /\ xrSession
  /\ selectListeners > 0
  /\ Track("select", Null)
  /\ orbitUpdates' = {}
  /\ IF CommitTapHits
     THEN /\ productGroupChildren # {}
          /\ InBounds(PlaceAtPose(hitTestResults))
          /\ productGroupVisible' = TRUE
          /\ productGroupPosition' = PlaceAtPose(hitTestResults)
          /\ floor' = [floor EXCEPT !.position = hitTestResults,
                                    !.visible = TRUE]
          /\ isPlacingProduct' = FALSE
          /\ placementMessage' = "none"
          /\ placementReticle' = Display(placementReticle, "hidden")
          /\ placeAgainButton' = "block"
          /\ rotateLeftBtn' = Display(rotateLeftBtn, "block")
          /\ rotateRightBtn' = Display(rotateRightBtn, "block")
          /\ DisarmCommitTap
     ELSE UNCHANGED << productGroupVisible, productGroupPosition, floor,
                       isPlacingProduct, placementMessage,
                       placementReticle, placeAgainButton, rotateLeftBtn,
                       rotateRightBtn, selectListeners >>
  /\ UNCHANGED << coreVars, xrSession, isARMode, hitTestSource,
                  hitTestRequests, hitTestResults, productGroupRotationY,
                  touchVars >>

\* a re-place request that registers no listener
LeaveCommitTapUnarmed == UNCHANGED selectListeners

\* session.addEventListener('select', ...) when there is a session
ArmCommitTap ==
  selectListeners' = IF xrSession THEN selectListeners + 1
                     ELSE selectListeners

\* click on the displayed 'Place Again' button
OnPlaceAgainClick ==
  /\ placeAgainButton = "block"
  /\ HideProductGroup
  /\ isPlacingProduct' = TRUE
  /\ placementMessage' = "block"
  /\ placeAgainButton' = "none"
  /\ HideRotationButtons
  /\ ArmCommitTap
  /\ Track("placeAgain", Null)
  /\ orbitUpdates' = {}
  /\ UNCHANGED << coreVars, xrSession, isARMode, productGroupPosition,
                  floor, hitTestSource, hitTestRequests, hitTestResults,
                  placementReticle, productGroupRotationY, touchVars >>

\* the yaw nudges of the rotate-left / rotate-right buttons, in 1/100 rad
RotateAngles == {-20, 20}

\* click on a displayed rotation button: rotateModel('y', angle)
RotateModel(angle) ==
  /\ IF angle < 0 THEN rotateLeftBtn = "block" ELSE rotateRightBtn = "block"
  /\ productGroupRotationY + angle >= -MaxYaw
  /\ productGroupRotationY + angle <= MaxYaw
  /\ productGroupRotationY' = productGroupRotationY + angle
  /\ Track("rotateModel", Null)
  /\ orbitUpdates' = {}
  /\ UNCHANGED << coreVars, placementVars, touchVars >>

\* the reticle part of the animation-loop callback
UpdateReticle ==
  IF isARMode /\ isPlacingProduct /\ hitTestSource # Null
  THEN placementReticle' =
         Display(placementReticle,
                 IF hitTestResults # NoPoint THEN "visible" ELSE "hidden")
  ELSE UNCHANGED placementReticle

\* the whole animation-loop callback
Animate ==
  /\ UpdateReticle
  /\ Frame
  /\ UNCHANGED << xrSession, isARMode, isPlacingProduct,
                  productGroupVisible, productGroupPosition, floor,
                  hitTestSource, hitTestRequests, hitTestResults,
                  placementMessage, placeAgainButton, rotateLeftBtn,
                  rotateRightBtn, selectListeners, productGroupRotationY,
                  touchVars >>

----------------------------------------------------------------------------
(* App: touch rotation of the product group.  App listens on the document  *)
(* in the bubbling phase, the interaction core on the canvas (and, for     *)
(* touchend, on the document) in the capture phase: a touch event the core *)
(* stops never reaches App.                                                *)

\* Math.atan2(dy, dx) of the two touch points, in 1/100 rad
TouchAngles == {0, 20}

\* touches left on the screen after a touchend
RemainingTouches == {0, 1}

AppOnTouchStart(touches, x, angle) ==
  IF ~isARMode
  THEN /\ lastTouchAngle' = IF touches = 2 /\ productGroupVisible
                            THEN <<angle>> ELSE lastTouchAngle
       /\ UNCHANGED << touchStartX, initialRotationY,
                       isSingleTouchRotating >>
  ELSE IF touches = 1
       THEN /\ touchStartX' = <<x>>
            /\ initialRotationY' = productGroupRotationY
            /\ isSingleTouchRotating' = TRUE
            /\ UNCHANGED lastTouchAngle
       ELSE /\ lastTouchAngle' = IF touches = 2 THEN <<angle>>
                                 ELSE lastTouchAngle
            /\ UNCHANGED << touchStartX, initialRotationY,
                            isSingleTouchRotating >>

\* productGroup.rotation.y += currentAngle - lastTouchAngle
TwoFingerYaw(angle) ==
  /\ productGroupRotationY' =
       productGroupRotationY + (angle - lastTouchAngle[1])
  /\ lastTouchAngle' = <<angle>>

AppOnTouchMove(touches, x, angle) ==
  /\ IF ~isARMode
     THEN IF touches = 2 /\ lastTouchAngle # NoNumber /\ productGroupVisible
          THEN TwoFingerYaw(angle)
          ELSE UNCHANGED << productGroupRotationY, lastTouchAngle >>
     ELSE IF productGroupVisible /\ isSingleTouchRotating /\ touches = 1
          THEN /\ productGroupRotationY' = initialRotationY + (x - touchStartX[1])
               /\ UNCHANGED lastTouchAngle
          ELSE IF productGroupVisible /\ touches = 2 /\ lastTouchAngle # NoNumber
               THEN TwoFingerYaw(angle)
               ELSE UNCHANGED << productGroupRotationY, lastTouchAngle >>
  /\ productGroupRotationY' >= -MaxYaw
  /\ productGroupRotationY' <= MaxYaw
  /\ UNCHANGED << touchStartX, initialRotationY, isSingleTouchRotating >>

AppOnTouchEnd(touches) ==
  /\ lastTouchAngle' = IF touches < 2 THEN NoNumber ELSE lastTouchAngle
  /\ isSingleTouchRotating' = IF touches = 0 THEN FALSE
                              ELSE isSingleTouchRotating
  /\ UNCHANGED << touchStartX, initialRotationY >>

\* event.stopPropagation() in the core's handlers
TouchStartStopped(touches, hit) ==
  ~isXRSessionActive /\ touches = 1 /\ TopLevelDraggable(hit) # Null

TouchMoveStopped(touches) ==
  isDragging /\ selectedObject # Null /\ touches = 1

TouchEndStopped == isDragging

\* one touchstart on the canvas: the core's handler, then App's
TouchStartEvent(touches, x, y, hit, angle) ==
  /\ OnTouchStart(touches, x, y, hit)
  /\ IF TouchStartStopped(touches, hit) THEN UNCHANGED touchVars
     ELSE AppOnTouchStart(touches, x, angle)
  /\ UNCHANGED << placementVars, productGroupRotationY >>

TouchMoveEvent(touches, x, y, angle) ==
  /\ OnTouchMove(touches, x, y)
  /\ IF TouchMoveStopped(touches)
     THEN UNCHANGED << productGroupRotationY, touchVars >>
     ELSE AppOnTouchMove(touches, x, angle)
  /\ UNCHANGED placementVars

TouchEndEvent(touches) ==
  /\ OnTouchEnd
  /\ IF TouchEndStopped THEN UNCHANGED touchVars
     ELSE AppOnTouchEnd(touches)
  /\ UNCHANGED << placementVars, productGroupRotationY >>

\* the 'sessionstart' and 'sessionend' events of renderer.xr: the core's
\* listener was registered first, App's second
SessionStartEvent == OnSessionStart /\ OnARSessionStart

SessionEndEvent == OnSessionEnd /\ OnARSessionEnd

----------------------------------------------------------------------------
(* App: load batches.  A batch is one run of the async handler of the file *)
(* input or of the 'Load Selected' button: it awaits its loads one after   *)
(* the other, and the continuation after an await runs as soon as the      *)
(* loader's callback has settled the promise.                              *)

MaxBatches == 2

MaxAlerts == 1

\* the files of one selection, by name
FileSelections == {<<"blade">>, <<"frame">>, <<"blade", "frame">>}

RemoveAt(list, i) == SubSeq(list, 1, i - 1) \o SubSeq(list, i + 1, Len(list))

\* the interaction core and the objects' transforms, without the scene graph
interactionVars == << objectVars, controllerVars, isMobile, channelVars, modalVars, xrVars,
                      selectedObject, isDragging, mouse, lastMousePosition,
                      lastDragPoint, orbitVars >>

\* the AR and touch state of App, which no load touches
viewVars == << placementVars, productGroupRotationY, touchVars >>

\* a handler that goes through the scene graph and the core without a write
CoreUntouched(op) ==
  /\ Track(op, Null)
  /\ orbitUpdates' = {}
  /\ UNCHANGED coreVars

\* the handler shows the overlay, clears the registry and starts its first
\* load
StartBatch(kind, files) ==
  /\ Len(batches) < MaxBatches
  /\ loadingOverlay' = "flex"
  /\ ClearExistingModels
  /\ batches' = Append(batches, [kind |-> kind, queue |-> files])

\* fileInput.onchange
OnFileInputChange(files) ==
  /\ IF files = << >>
     THEN /\ loadingOverlay' = "none"
          /\ CoreUntouched("fileInput")
          /\ UNCHANGED batches
     ELSE StartBatch("upload", files)
  /\ UNCHANGED << loadResult, alerts, browseModal, viewVars >>

\* the loop goes on after a load of the batch has settled: the next load is
\* started, or the loop is left and the overlay hidden
AdvanceBatch(i) ==
  IF Len(batches[i].queue) > 1
  THEN /\ batches' = [batches EXCEPT ![i].queue = Tail(@)]
       /\ UNCHANGED loadingOverlay
  ELSE /\ batches' = RemoveAt(batches, i)
       /\ loadingOverlay' = "none"

\* the rejection leaves the handler through the await: the rest of it never
\* runs
AbandonBatch(i) ==
  /\ batches' = RemoveAt(batches, i)
  /\ UNCHANGED loadingOverlay

\* the loader's success callback of the pending load of batch i
LoadSucceeds(i) ==
  /\ i \in 1..Len(batches)
  /\ LoadModel(Head(batches[i].queue))
  /\ loadResult' = "resolved"
  /\ AdvanceBatch(i)
  /\ UNCHANGED << alerts, browseModal, viewVars >>

\* an error callback that attaches the container it could not fill
AttachFailedContainer(name) ==
  /\ productGroupChildren' = productGroupChildren \cup {name}
  /\ UNCHANGED << loadedModels, draggableObjects, created >>

\* the loader's error callback: console.error and reject(error)
RegisterNothing(name) == UNCHANGED sceneVars

\* the loader's error callback of the pending load of batch i; the upload
\* handler catches the rejection, the 'Load Selected' handler does not
LoadFails(i) ==
  /\ i \in 1..Len(batches)
  /\ Track("loadModelError", Null)
  /\ orbitUpdates' = {}
  /\ RegisterNothing(Head(batches[i].queue))
  /\ loadResult' = "rejected"
  /\ IF batches[i].kind = "upload" THEN AdvanceBatch(i) ELSE AbandonBatch(i)
  /\ UNCHANGED << interactionVars, alerts, browseModal, viewVars >>

\* showBrowseInterface up to the fetch of the catalog
ShowBrowseInterface ==
  /\ browseModal = "closed"
  /\ loadingOverlay' = "flex"
  /\ browseModal' = "fetching"
  /\ CoreUntouched("browse")
  /\ UNCHANGED << batches, loadResult, alerts, viewVars >>

\* the catalog arrives and the modal is put up
CatalogFetched ==
  /\ browseModal = "fetching"
  /\ loadingOverlay' = "none"
  /\ browseModal' = "open"
  /\ CoreUntouched("browseOpen")
  /\ UNCHANGED << batches, loadResult, alerts, viewVars >>

\* the catch block of showBrowseInterface
CatalogFetchFails ==
  /\ browseModal = "fetching"
  /\ alerts < MaxAlerts
  /\ loadingOverlay' = "none"
  /\ alerts' = alerts + 1
  /\ browseModal' = "closed"
  /\ CoreUntouched("browseError")
  /\ UNCHANGED << batches, loadResult, viewVars >>

\* click on 'Load Selected'
OnLoadSelectedClick(selected) ==
  /\ browseModal = "open"
  /\ browseModal' = "closed"
  /\ IF selected = << >>
     THEN /\ CoreUntouched("loadSelected")
          /\ UNCHANGED << loadingOverlay, batches >>
     ELSE StartBatch("browse", selected)
  /\ UNCHANGED << loadResult, alerts, viewVars >>

\* click on 'Cancel'
OnCancelClick ==
  /\ browseModal = "open"
  /\ browseModal' = "closed"
  /\ CoreUntouched("browseCancel")
  /\ UNCHANGED << loadingOverlay, batches, loadResult, alerts, viewVars >>

----------------------------------------------------------------------------
(* The modal of modalManager.js.  The n-th call of showModal is modal n;   *)
(* the timers it sets have the id n.  modalCalls[n] keeps what the browser *)
(* and the closures of that call hold: whether its interval and its        *)
(* timeout are still in the browser's list of active timers, the closure   *)
(* variable timeLeft, and whether buttons[0] has an autoTimeoutCallback.   *)

\* the countdown argument: none, or a number of seconds
Countdowns == {NoNumber, <<1>>, <<2>>}

\* clearInterval(id); the id 0 stands for null and is not cleared
ClearInterval(calls, id) ==
  [n \in 1..Len(calls) |->
     IF n = id THEN [calls[n] EXCEPT !.interval = FALSE] ELSE calls[n]]

\* clearTimeout(id)
ClearTimeout(calls, id) ==
  [n \in 1..Len(calls) |->
     IF n = id THEN [calls[n] EXCEPT !.timeout = FALSE] ELSE calls[n]]

\* a showModal that clears the stored interval only
ClearStoredIntervalOnly(calls) == ClearInterval(calls, modalOverlay.interval)

\* showModal clears the stored interval and the stored timeout
ClearStoredTimers(calls) ==
  ClearTimeout(ClearInterval(calls, modalOverlay.interval),
               modalOverlay.timeout)

\* a handler of the modal: the viewer's state is not touched
ModalStep(op) ==
  /\ Track(op, Null)
  /\ orbitUpdates' = {}
  /\ UNCHANGED << sceneVars, objectVars, controllerVars, isMobile,
                  channelVars, xrVars, selectedObject, isDragging, mouse,
                  lastMousePosition, lastDragPoint, orbitVars, appVars >>

\* showModal({ countdown, buttons }) with one button
ShowModal(countdown, callback) ==
  /\ Len(modalCalls) < MaxModals
  /\ modalCalls' =
       Append(ClearStoredTimers(modalCalls),
              [timeLeft |-> countdown,
               interval |-> countdown # NoNumber,
               timeout |-> countdown # NoNumber,
               callback |-> callback])
  /\ modalOverlay' =
       [created |-> TRUE,
        display |-> "flex",
        interval |-> IF countdown # NoNumber THEN Len(modalCalls) + 1 ELSE 0,
        timeout |-> IF countdown # NoNumber THEN Len(modalCalls) + 1 ELSE 0,
        timer |-> countdown]
  /\ ModalStep("showModal")

\* what hideModal leaves of the overlay
Hidden(overlay) ==
  IF overlay.created
  THEN [overlay EXCEPT !.display = "none", !.interval = 0, !.timeout = 0]
  ELSE overlay

\* what hideModal leaves of the browser's timers
AfterHide(calls, overlay) ==
  IF overlay.created
  THEN ClearTimeout(ClearInterval(calls, overlay.interval), overlay.timeout)
  ELSE calls

HideModal ==
  /\ modalOverlay' = Hidden(modalOverlay)
  /\ modalCalls' = AfterHide(modalCalls, modalOverlay)
  /\ ModalStep("hideModal")

\* click on the button of the displayed modal: btn.onClick, then hideModal
OnModalButtonClick ==
  /\ modalOverlay.display = "flex"
  /\ modalOverlay' = Hidden(modalOverlay)
  /\ modalCalls' = AfterHide(modalCalls, modalOverlay)
  /\ ModalStep("modalButton")

\* the interval of modal n ticks: it ticks at most `countdown` times before
\* its timeout is due
IntervalFires(n) ==
  /\ n \in 1..Len(modalCalls)
  /\ modalCalls[n].interval
  /\ modalCalls[n].timeLeft[1] > 0
  /\ modalCalls' =
       [modalCalls EXCEPT ![n].timeLeft = << modalCalls[n].timeLeft[1] - 1 >>]
  /\ modalOverlay' =
       [modalOverlay EXCEPT !.timer = << modalCalls[n].timeLeft[1] - 1 >>]
  /\ ModalStep("modalInterval")

\* the timeout of modal n expires: clearInterval(interval), hideModal(),
\* then the auto-timeout callback if there is one
TimeoutFires(n) ==
  /\ n \in 1..Len(modalCalls)
  /\ modalCalls[n].timeout
  /\ LET calls == [modalCalls EXCEPT ![n].timeout = FALSE,
                                     ![n].interval = FALSE]
         overlay == [modalOverlay EXCEPT !.interval = 0]
     IN  /\ modalOverlay' = Hidden(overlay)
         /\ modalCalls' = AfterHide(calls, overlay)
  /\ ModalStep("modalTimeout")

----------------------------------------------------------------------------
(* The Reset button of the control bar *)

\* child.children[0].userData.originalScale: loadModel stores no scale on
\* the loaded scene
SceneOriginalScale(container) == NoNumber

\* resetButton.onclick: every child of the product group gets position
\* (0,0,0), rotation (0,0,0) and the stored scale or (1,1,1); the camera is
\* fitted to the scene again
OnResetClick ==
  /\ position' = [o \in Containers |->
                    IF o \in productGroupChildren THEN ZeroVector
                    ELSE position[o]]
  /\ quaternion' = [o \in Containers |->
                      IF o \in productGroupChildren THEN IdentityQuaternion
                      ELSE quaternion[o]]
  /\ scale' = [o \in Containers |->
                 IF o \notin productGroupChildren THEN scale[o]
                 ELSE IF SceneOriginalScale(o) # NoNumber
                 THEN SceneOriginalScale(o)[1]
                 ELSE 1]
  /\ Track("reset", Null)
  /\ orbitUpdates' = {}
  /\ UNCHANGED << sceneVars, controllerVars, isMobile, channelVars, modalVars, xrVars,
                  selectedObject, isDragging, mouse, lastMousePosition,
                  lastDragPoint, orbitVars, appVars >>

----------------------------------------------------------------------------
(* Observers: history kept for the properties, written by no handler *)

\* the drag session of section 3 of the specification: it opens with a
\* successful press when none is open and closes with the release; p0 is
\* the first plane intersection stored since it opened
DragHistory ==
  hDrag' = IF ~isDragging /\ isDragging'
           THEN [obj |-> selectedObject',
                 pre |-> position'[selectedObject'],
                 p0 |-> NoPoint]
           ELSE IF ~isDragging'
           THEN [obj |-> Null, pre |-> ZeroVector, p0 |-> NoPoint]
           ELSE IF hDrag.p0 = NoPoint /\ lastDragPoint' # NoPoint
           THEN [hDrag EXCEPT !.p0 = lastDragPoint']
           ELSE hDrag

\* the orientations of the manipulating controller and of the selected
\* object at the moment rotation mode is entered
RotationHistory ==
  hRot' = IF ev'.op = "squeezeStart" /\ selectedObject # Null
          THEN [c0 |-> IF activeController # Null
                       THEN controllerQuaternion[activeController]
                       ELSE controllerQuaternion[ev'.ctrl],
                o0 |-> quaternion[selectedObject]]
          ELSE hRot

\* the names registered by successful loads since the latest
\* clearExistingModels
RegistryHistory ==
  hNames' = IF ev'.op = "clearExistingModels" THEN {}
            ELSE hNames \cup {NameOf(c) : c \in created' \ created}

\* the controller selection: it opens with every select-press of an
\* immersive session that finds a draggable object, and closes with the
\* select-release or with a press outside a session; pre and c0 are the
\* object's and the controller's positions at the press, prev is the
\* manipulating controller's position at the press or at the latest frame
\* of the manipulation since
SelectionHistory(hit) ==
  hSel' = IF ev'.op = "selectStart" /\ TopLevelDraggable(hit) # Null
          THEN [obj |-> IF isXRSessionActive THEN TopLevelDraggable(hit)
                        ELSE Null,
                pre |-> position[TopLevelDraggable(hit)],
                c0 |-> controllerPosition[ev'.ctrl],
                prev |-> controllerPosition[ev'.ctrl]]
          ELSE IF ev'.op = "selectEnd"
          THEN [obj |-> Null, pre |-> ZeroVector, c0 |-> ZeroVector,
                prev |-> ZeroVector]
          ELSE IF ev'.op = "frame" /\ XRManipulation
          THEN [hSel EXCEPT !.prev = controllerPosition[activeController]]
          ELSE hSel

\* whether some session has ended while a request of its negotiation chain
\* was still pending
ChainHistory ==
  hEnded' = (hEnded \/ (ev'.op = "sessionEnd" /\ hitTestRequests # {}))

\* the load batch that was requested last: pos is its place among the
\* running batches, 0 once it has settled; objs are the containers its
\* loads created; overlapped tells whether an earlier batch was running
\* when it was requested.  i is the place of the batch whose load settles
\* in this step, 0 in a step that settles none
BatchHistory(i) ==
  hBatch' =
    IF Len(batches') > Len(batches)
    THEN [pos |-> Len(batches'), objs |-> {},
          overlapped |-> Len(batches) > 0]
    ELSE [pos |-> IF Len(batches') = Len(batches) THEN hBatch.pos
                  ELSE IF i = hBatch.pos THEN 0
                  ELSE IF i < hBatch.pos THEN hBatch.pos - 1
                  ELSE hBatch.pos,
          objs |-> IF i # 0 /\ i = hBatch.pos
                   THEN hBatch.objs \cup (created' \ created)
                   ELSE hBatch.objs,
          overlapped |-> hBatch.overlapped]

\* how often the auto-timeout callback of each modal has run, and the
\* number of the latest modal that a button, hideModal or a later showModal
\* has put away; n is the modal whose timer fires in this step, 0 in a step
\* in which none does
ModalHistory(n) ==
  hModal' =
    IF ev'.op = "modalTimeout"
    THEN IF modalCalls[n].callback
         THEN [hModal EXCEPT !.runs[n] = @ + 1]
         ELSE hModal
    ELSE IF ev'.op \in {"showModal", "hideModal", "modalButton"}
    THEN [hModal EXCEPT !.dismissed = Len(modalCalls)]
    ELSE hModal

NoHistory == UNCHANGED << hDrag, hRot, hNames, hSel, hEnded, hBatch, hModal >>

\* the interaction core taken on its own: App's listeners of the same
\* events write App's fields only, which no handler of the core reads
AppIdle == UNCHANGED appVars

\* no load batch and no catalog fetch is started or settles
LoadIdle == UNCHANGED loadVars

----------------------------------------------------------------------------
(* The event model *)

\* each name is loaded once
LoadStep(names) == \E name \in names : name \notin created /\ LoadModel(name)

MouseDownStep ==
  \E x \in ClientXs, y \in ClientYs, hit \in PointerHits :
    OnMouseDown(x, y, hit)

MouseMoveStep == \E x \in ClientXs, y \in ClientYs : OnMouseMove(x, y)

TouchStartStep ==
  \E n \in TouchCounts, x \in ClientXs, y \in ClientYs, hit \in PointerHits :
    OnTouchStart(n, x, y, hit)

TouchMoveStep ==
  \E n \in TouchCounts, x \in ClientXs, y \in ClientYs : OnTouchMove(n, x, y)

ControllerPoseStep(positions, quaternions) ==
  \E c \in Controllers, p \in positions, q \in quaternions :
    ControllerPose(c, p, q)

SelectStartStep ==
  \E c \in Controllers, hit \in SceneHits : OnControllerSelectStart(c, hit)

SelectEndStep == \E c \in Controllers : OnControllerSelectEnd(c)

SqueezeStartStep == \E c \in Controllers : OnControllerSqueezeStart(c)

SqueezeEndStep == \E c \in Controllers : OnControllerSqueezeEnd(c)

\* every handler of the interaction core, in any order, with the
\* controllers at rest
Next ==
  \/ LoadStep(ObjectNames) /\ NoHistory /\ AppIdle
  \/ MouseDownStep /\ NoHistory /\ AppIdle
  \/ MouseMoveStep /\ NoHistory /\ AppIdle
  \/ OnMouseUp /\ NoHistory /\ AppIdle
  \/ TouchStartStep /\ NoHistory /\ AppIdle
  \/ TouchMoveStep /\ NoHistory /\ AppIdle
  \/ OnTouchEnd /\ NoHistory /\ AppIdle
  \/ OnSessionStart /\ NoHistory /\ AppIdle
  \/ OnSessionEnd /\ NoHistory /\ AppIdle
  \/ SelectStartStep /\ NoHistory /\ AppIdle
  \/ SelectEndStep /\ NoHistory /\ AppIdle
  \/ SqueezeStartStep /\ NoHistory /\ AppIdle
  \/ SqueezeEndStep /\ NoHistory /\ AppIdle
  \/ Frame /\ NoHistory /\ AppIdle

Spec == Init /\ [][Next]_vars

\* the pointer/touch path with the drag-session history
NextDrag ==
  \/ LoadStep(ObjectNames) /\ DragHistory /\ UNCHANGED << hRot, hNames, hSel, hEnded, hBatch, hModal >> /\ AppIdle
  \/ MouseDownStep /\ DragHistory /\ UNCHANGED << hRot, hNames, hSel, hEnded, hBatch, hModal >> /\ AppIdle
  \/ MouseMoveStep /\ DragHistory /\ UNCHANGED << hRot, hNames, hSel, hEnded, hBatch, hModal >> /\ AppIdle
  \/ OnMouseUp /\ DragHistory /\ UNCHANGED << hRot, hNames, hSel, hEnded, hBatch, hModal >> /\ AppIdle
  \/ TouchStartStep /\ DragHistory /\ UNCHANGED << hRot, hNames, hSel, hEnded, hBatch, hModal >> /\ AppIdle
  \/ TouchMoveStep /\ DragHistory /\ UNCHANGED << hRot, hNames, hSel, hEnded, hBatch, hModal >> /\ AppIdle
  \/ OnTouchEnd /\ DragHistory /\ UNCHANGED << hRot, hNames, hSel, hEnded, hBatch, hModal >> /\ AppIdle
  \/ Frame /\ DragHistory /\ UNCHANGED << hRot, hNames, hSel, hEnded, hBatch, hModal >> /\ AppIdle

SpecDrag == InitDesktop /\ [][NextDrag]_vars

\* the same path with and without the host flag and the channel
SpecCollaboration == InitCollaboration /\ [][NextDrag]_vars

\* the XR path with turning controllers and the rotation-entry history
NextRotation ==
  \/ LoadStep({"blade"}) /\ RotationHistory /\ UNCHANGED << hDrag, hNames, hSel, hEnded, hBatch, hModal >>
       /\ AppIdle
  \/ OnSessionStart /\ RotationHistory /\ UNCHANGED << hDrag, hNames, hSel, hEnded, hBatch, hModal >>
       /\ AppIdle
  \/ OnSessionEnd /\ RotationHistory /\ UNCHANGED << hDrag, hNames, hSel, hEnded, hBatch, hModal >>
       /\ AppIdle
  \/ ControllerPoseStep({ZeroVector}, ControllerQuaternions)
       /\ RotationHistory /\ UNCHANGED << hDrag, hNames, hSel, hEnded, hBatch, hModal >>
       /\ AppIdle
  \/ SelectStartStep /\ RotationHistory /\ UNCHANGED << hDrag, hNames, hSel, hEnded, hBatch, hModal >>
       /\ AppIdle
  \/ SelectEndStep /\ RotationHistory /\ UNCHANGED << hDrag, hNames, hSel, hEnded, hBatch, hModal >>
       /\ AppIdle
  \/ SqueezeStartStep /\ RotationHistory /\ UNCHANGED << hDrag, hNames, hSel, hEnded, hBatch, hModal >>
       /\ AppIdle
  \/ SqueezeEndStep /\ RotationHistory /\ UNCHANGED << hDrag, hNames, hSel, hEnded, hBatch, hModal >>
       /\ AppIdle
  \/ Frame /\ RotationHistory /\ UNCHANGED << hDrag, hNames, hSel, hEnded, hBatch, hModal >>
       /\ AppIdle

SpecRotation == InitDesktop /\ [][NextRotation]_vars

\* the two-finger gesture, which turns the product group in both modes
TwoFingers == {2}

\* touches that miss every draggable object
TouchStartMissStep ==
  \E n \in TwoFingers, x \in ClientXs, y \in ClientYs, a \in TouchAngles :
    TouchStartEvent(n, x, y, Null, a)

TouchMoveEventStep ==
  \E n \in TwoFingers, x \in ClientXs, y \in ClientYs, a \in TouchAngles :
    TouchMoveEvent(n, x, y, a)

TouchEndEventStep == \E n \in RemainingTouches : TouchEndEvent(n)

ReferenceSpaceStep ==
  \E type \in ReferenceSpaceTypes :
    ReferenceSpaceResolved(type) \/ ReferenceSpaceRejected(type)

HitTestSourceStep == ResolveHitTestSource \/ RejectHitTestSource

HitTestUpdateStep == \E results \in HitTestResultSets : HitTestUpdate(results)

RotateModelStep == \E angle \in RotateAngles : RotateModel(angle)

\* a tap on the screen of a handheld device is the select gesture of the
\* input source in controller slot 0
TapController == "controller-right"

TapSelectStartStep ==
  \E hit \in SceneHits : OnControllerSelectStart(TapController, hit)

TapSelectEndStep == OnControllerSelectEnd(TapController)

\* App's AR tap-to-place state machine, with touch rotation and select
\* input of the controllers
NextPlacement ==
  \/ LoadStep({"blade"}) /\ NoHistory /\ AppIdle
  \/ SessionStartEvent /\ NoHistory /\ LoadIdle
  \/ SessionEndEvent /\ NoHistory /\ LoadIdle
  \/ ReferenceSpaceStep /\ NoHistory /\ LoadIdle
  \/ HitTestSourceStep /\ NoHistory /\ LoadIdle
  \/ HitTestUpdateStep /\ NoHistory /\ LoadIdle
  \/ OnSelectEvent /\ NoHistory /\ LoadIdle
  \/ OnPlaceAgainClick /\ NoHistory /\ LoadIdle
  \/ RotateModelStep /\ NoHistory /\ LoadIdle
  \/ TouchStartMissStep /\ NoHistory /\ LoadIdle
  \/ TouchMoveEventStep /\ NoHistory /\ LoadIdle
  \/ TouchEndEventStep /\ NoHistory /\ LoadIdle
  \/ TapSelectStartStep /\ NoHistory /\ AppIdle
  \/ TapSelectEndStep /\ NoHistory /\ AppIdle
  \/ Animate /\ NoHistory /\ LoadIdle

SpecPlacement == InitDesktop /\ [][NextPlacement]_vars

\* loads under names that may already be registered
ReloadStep(names) == \E name \in names : LoadModel(name)

\* App's model registry: loads, clears, and presses and releases of the
\* pointer on what the core was handed
NextRegistry ==
  \/ ReloadStep(ObjectNames) /\ RegistryHistory /\ UNCHANGED << hDrag, hRot, hSel, hEnded, hBatch, hModal >>
       /\ AppIdle
  \/ ClearExistingModels /\ RegistryHistory /\ UNCHANGED << hDrag, hRot, hSel, hEnded, hBatch, hModal >>
       /\ AppIdle
  \/ MouseDownStep /\ RegistryHistory /\ UNCHANGED << hDrag, hRot, hSel, hEnded, hBatch, hModal >>
       /\ AppIdle
  \/ OnMouseUp /\ RegistryHistory /\ UNCHANGED << hDrag, hRot, hSel, hEnded, hBatch, hModal >>
       /\ AppIdle

SpecRegistry == InitDesktop /\ [][NextRegistry]_vars

\* where the XR runtime can put a controller
TranslationPositions == {ZeroVector, <<1, 0, 0>>}

TranslationStep(A) ==
  A /\ SelectionHistory(Null) /\ UNCHANGED << hDrag, hRot, hNames, hEnded, hBatch, hModal >>
    /\ AppIdle

\* the XR runtime moves the manipulating controller
TranslationPoseStep ==
  \E p \in TranslationPositions :
    ControllerPose(TapController, p, IdentityQuaternion)

TranslationSelectStartStep ==
  \E hit \in SceneHits :
    /\ OnControllerSelectStart(TapController, hit)
    /\ SelectionHistory(hit)
    /\ UNCHANGED << hDrag, hRot, hNames, hEnded, hBatch, hModal >>
    /\ AppIdle

\* translation by one moving controller, with the selection history, next
\* to the mouse
NextTranslation ==
  \/ TranslationStep(LoadStep({"blade"}))
  \/ TranslationStep(OnSessionStart)
  \/ TranslationStep(OnSessionEnd)
  \/ TranslationStep(TranslationPoseStep)
  \/ TranslationSelectStartStep
  \/ TranslationStep(TapSelectEndStep)
  \/ TranslationStep(Frame)
  \/ TranslationStep(MouseDownStep)
  \/ TranslationStep(MouseMoveStep)
  \/ TranslationStep(OnMouseUp)

\* translation and rotation mode by one moving controller, with the
\* selection history
NextSqueeze ==
  \/ TranslationStep(LoadStep({"blade"}))
  \/ TranslationStep(OnSessionStart)
  \/ TranslationStep(OnSessionEnd)
  \/ TranslationStep(TranslationPoseStep)
  \/ TranslationSelectStartStep
  \/ TranslationStep(TapSelectEndStep)
  \/ TranslationStep(OnControllerSqueezeStart(TapController))
  \/ TranslationStep(OnControllerSqueezeEnd(TapController))
  \/ TranslationStep(Frame)

SpecTranslation == Init /\ [][NextTranslation]_vars

SpecSqueeze == Init /\ [][NextSqueeze]_vars

TouchStartEventStep ==
  \E n \in TouchCounts, x \in ClientXs, y \in ClientYs, hit \in PointerHits,
     a \in TouchAngles :
    TouchStartEvent(n, x, y, hit, a)

TouchMoveAnyStep ==
  \E n \in TouchCounts, x \in ClientXs, y \in ClientYs, a \in TouchAngles :
    TouchMoveEvent(n, x, y, a)

\* pointer input outside AR: drags of a part with the mouse or one finger
\* and two-finger turns of the product group, each touch event going
\* through the core and then App
NextTouch ==
  \/ LoadStep(ObjectNames) /\ NoHistory /\ AppIdle
  \/ TouchStartEventStep /\ NoHistory /\ LoadIdle
  \/ TouchMoveAnyStep /\ NoHistory /\ LoadIdle
  \/ TouchEndEventStep /\ NoHistory /\ LoadIdle
  \/ MouseDownStep /\ NoHistory /\ AppIdle
  \/ MouseMoveStep /\ NoHistory /\ AppIdle
  \/ OnMouseUp /\ NoHistory /\ AppIdle

SpecTouch == InitDesktop /\ [][NextTouch]_vars

\* models are loaded while the product group stands as it was created
LoadBeforeTurnStep ==
  /\ productGroupRotationY = 0
  /\ productGroupPosition = ZeroVector
  /\ LoadStep(ObjectNames)

\* drags of a part, two-finger turns of the product group, and the Reset
\* button
NextReset ==
  \/ LoadBeforeTurnStep /\ NoHistory /\ AppIdle
  \/ TouchStartEventStep /\ NoHistory /\ LoadIdle
  \/ TouchMoveAnyStep /\ NoHistory /\ LoadIdle
  \/ TouchEndEventStep /\ NoHistory /\ LoadIdle
  \/ MouseDownStep /\ NoHistory /\ AppIdle
  \/ MouseMoveStep /\ NoHistory /\ AppIdle
  \/ OnMouseUp /\ NoHistory /\ AppIdle
  \/ OnResetClick /\ NoHistory

SpecReset == InitDesktop /\ [][NextReset]_vars

ModalStepOf(A, n) ==
  A /\ ModalHistory(n)
    /\ UNCHANGED << hDrag, hRot, hNames, hSel, hEnded, hBatch >>

\* calls of showModal and hideModal, clicks on the modal's button and
\* expiries of the modals' timers, in any order
NextModal ==
  \/ \E countdown \in Countdowns, callback \in BOOLEAN :
       ModalStepOf(ShowModal(countdown, callback), 0)
  \/ ModalStepOf(HideModal, 0)
  \/ ModalStepOf(OnModalButtonClick, 0)
  \/ \E n \in 1..MaxModals : ModalStepOf(IntervalFires(n), n)
  \/ \E n \in 1..MaxModals : ModalStepOf(TimeoutFires(n), n)

SpecModal == InitDesktop /\ [][NextModal]_vars

NegotiationStepOf(A) ==
  A /\ ChainHistory /\ UNCHANGED << hDrag, hRot, hNames, hSel, hBatch, hModal >>
    /\ LoadIdle

\* sessions that start and end while the negotiation chain of the hit-test
\* source is under way, with the frames and commit taps that read the handle
NextNegotiation ==
  \/ LoadStep({"blade"}) /\ ChainHistory
       /\ UNCHANGED << hDrag, hRot, hNames, hSel, hBatch, hModal >> /\ AppIdle
  \/ NegotiationStepOf(SessionStartEvent)
  \/ NegotiationStepOf(SessionEndEvent)
  \/ NegotiationStepOf(ReferenceSpaceStep)
  \/ NegotiationStepOf(HitTestSourceStep)
  \/ NegotiationStepOf(HitTestUpdateStep)
  \/ NegotiationStepOf(OnSelectEvent)
  \/ NegotiationStepOf(OnPlaceAgainClick)
  \/ NegotiationStepOf(Animate)

SpecNegotiation == InitDesktop /\ [][NextNegotiation]_vars

FileInputStep ==
  \E files \in FileSelections \cup {<< >>} : OnFileInputChange(files)

LoadSelectedStep ==
  \E selected \in FileSelections \cup {<< >>} : OnLoadSelectedClick(selected)

LoadSucceedsStep == \E i \in 1..MaxBatches : LoadSucceeds(i)

LoadFailsStep == \E i \in 1..MaxBatches : LoadFails(i)

\* load batches of the file input and of the browse modal, and the catalog
\* fetch
NextLoading ==
  \/ FileInputStep /\ RegistryHistory /\ UNCHANGED << hDrag, hRot, hSel, hEnded, hBatch, hModal >>
  \/ ShowBrowseInterface /\ RegistryHistory /\ UNCHANGED << hDrag, hRot, hSel, hEnded, hBatch, hModal >>
  \/ CatalogFetched /\ RegistryHistory /\ UNCHANGED << hDrag, hRot, hSel, hEnded, hBatch, hModal >>
  \/ CatalogFetchFails /\ RegistryHistory /\ UNCHANGED << hDrag, hRot, hSel, hEnded, hBatch, hModal >>
  \/ LoadSelectedStep /\ RegistryHistory /\ UNCHANGED << hDrag, hRot, hSel, hEnded, hBatch, hModal >>
  \/ OnCancelClick /\ RegistryHistory /\ UNCHANGED << hDrag, hRot, hSel, hEnded, hBatch, hModal >>
  \/ LoadSucceedsStep /\ RegistryHistory /\ UNCHANGED << hDrag, hRot, hSel, hEnded, hBatch, hModal >>
  \/ LoadFailsStep /\ RegistryHistory /\ UNCHANGED << hDrag, hRot, hSel, hEnded, hBatch, hModal >>

SpecLoading == InitDesktop /\ [][NextLoading]_vars

OverlapStep(A, i) ==
  A /\ BatchHistory(i) /\ UNCHANGED << hDrag, hRot, hNames, hSel, hEnded, hModal >>

\* load batches that are requested while others are running
NextOverlap ==
  \/ OverlapStep(FileInputStep, 0)
  \/ OverlapStep(ShowBrowseInterface, 0)
  \/ OverlapStep(CatalogFetched, 0)
  \/ OverlapStep(LoadSelectedStep, 0)
  \/ OverlapStep(OnCancelClick, 0)
  \/ \E i \in 1..MaxBatches : OverlapStep(LoadSucceeds(i), i)
  \/ \E i \in 1..MaxBatches : OverlapStep(LoadFails(i), i)

SpecOverlap == InitDesktop /\ [][NextOverlap]_vars

----------------------------------------------------------------------------
(* Properties *)

PressOps == {"mouseDown", "touchStart"}

ReleaseOps == {"mouseUp", "touchEnd"}

ControllerOps == {"selectStart", "selectEnd", "squeezeStart", "squeezeEnd"}

SessionActive == isDragging \/ XRManipulation

OrbitSuspended == orbitControls = Suspended /\ appOrbitControls = Suspended

OrbitResumed == orbitControls = Resumed /\ appOrbitControls = Resumed

\* C1: a mouse-down or touch-start that arrives while a drag session is
\* active starts no new session: it leaves the selected object, the stored
\* screen coordinate and the stored drag-plane point as they were.
PressDuringDragChangesNothing ==
  [][(isDragging /\ ev'.op \in PressOps)
       => /\ selectedObject' = selectedObject
          /\ lastMousePosition' = lastMousePosition
          /\ lastDragPoint' = lastDragPoint]_vars

\* C2: whenever a manipulation session is active (a pointer/touch drag, or
\* an object selected by an active controller during an immersive session)
\* both orbit-control instances are fully suspended.
OrbitSuspendedDuringSession == SessionActive => OrbitSuspended

\* C3: a render frame that runs while a manipulation session is active
\* invokes update() on neither orbit-control instance.
NoOrbitUpdateInSessionFrame ==
  (ev.op = "frame" /\ SessionActive) => orbitUpdates = {}

\* C4: the app's and the interaction core's orbit-control instances always
\* carry the same enabled/rotate/pan/zoom flags.
OrbitInstancesAgree == orbitControls = appOrbitControls

OrbitInstancesSuspendedTogether ==
  isDragging /\ ~orbitControls.enabled /\ ~appOrbitControls.enabled

\* C5: a mouse-up, touch-end or touch-cancel that arrives while a drag
\* session is active leaves the drag flag false, the selected object and the
\* drag-plane point cleared, and both orbit-control instances fully resumed.
ReleaseEndsDrag ==
  (ev.op \in ReleaseOps /\ ev.wasDragging)
    => /\ ~isDragging
       /\ selectedObject = Null
       /\ lastDragPoint = NoPoint
       /\ OrbitResumed

ReleaseEndedADrag ==
  /\ ev.op = "touchEnd"
  /\ ev.wasDragging
  /\ ~isDragging
  /\ orbitControls.enableZoom

\* C6: after every move of a drag session that intersects the drag plane,
\* the dragged object's position is its position at the press plus the
\* latest intersection minus the first intersection of the session.
DragNetDisplacement ==
  (/\ ev.op \in {"mouseMove", "touchMove"}
   /\ isDragging
   /\ hDrag.obj # Null
   /\ hDrag.p0 # NoPoint
   /\ lastDragPoint # NoPoint)
    => position[hDrag.obj]
         = AddVectors(hDrag.pre, SubVectors(lastDragPoint, hDrag.p0))

\* C7: in every rotation-mode frame the object's orientation is
\* (C1 * inverse(C0)) * O0, with C0 and O0 the orientations of the
\* manipulating controller and of the object when rotation mode was entered
\* and C1 the controller's orientation in that frame.
RotationTracksController ==
  (ev.op = "frame" /\ XRManipulation /\ rotationMode)
    => quaternion[selectedObject]
         = MultiplyQuaternions(
             MultiplyQuaternions(controllerQuaternion[activeController],
                                 InvertQuaternion(hRot.c0)),
             hRot.o0)

\* C8: rotation mode is on only while an object is selected.
RotationModeNeedsSelection == rotationMode => selectedObject # Null

\* C9: while a controller holds a selection, a select-press or a
\* select-release from the other controller changes neither the selected
\* object nor the active controller.
OtherControllerChangesNothing ==
  [][(/\ selectedObject # Null
      /\ activeController # Null
      /\ ev'.op \in {"selectStart", "selectEnd"}
      /\ ev'.ctrl # activeController)
       => /\ selectedObject' = selectedObject
          /\ activeController' = activeController]_vars

\* C10: a controller select or squeeze event delivered while no immersive
\* session is active changes none of the selected object, the active
\* controller and rotation mode.
ControllerEventIgnoredOutsideXR ==
  [][(~isXRSessionActive /\ ev'.op \in ControllerOps)
       => UNCHANGED << selectedObject, activeController, rotationMode >>]_vars

PointerOps == PressOps \cup ReleaseOps \cup {"mouseMove", "touchMove"}

SessionOps == {"sessionStart", "sessionEnd"}

\* C11: a mouse or touch press, move or release delivered while an
\* immersive session is active changes neither the selected object, nor any
\* object's position, nor the drag flag, nor the orbit-control state.
PointerEventIgnoredInXR ==
  [][(isXRSessionActive /\ ev'.op \in PointerOps)
       => UNCHANGED << selectedObject, position, isDragging,
                       orbitControls, appOrbitControls >>]_vars

\* C12: right after a sessionstart or sessionend notification the
\* interaction core holds no manipulation session: no selected object, no
\* active controller, rotation mode off and no drag in progress.
NoSessionAfterLifecycleEvent ==
  (ev.op \in SessionOps)
    => /\ selectedObject = Null
       /\ activeController = Null
       /\ ~rotationMode
       /\ ~isDragging

AwaitingPlacement == isARMode /\ isPlacingProduct

Placed == isARMode /\ ~isPlacingProduct

\* C13: after every commit tap that places the product group, the group's
\* lowest world-space point is at the height of that tap's hit pose.
CommitPutsLowestPointOnSurface ==
  [][(ev'.op = "select" /\ isPlacingProduct /\ ~isPlacingProduct')
       => BoxMinY(productGroupPosition') = hitTestResults[2]]_vars

\* C14: right after the session ends the AR flag and the
\* awaiting-placement flag are false, the hit-test handle is null and the
\* ground plane is the non-AR one again.
SessionEndLeadsToIdle ==
  (ev.op = "sessionEnd")
    => /\ ~isARMode
       /\ ~isPlacingProduct
       /\ hitTestSource = Null
       /\ floor = BrowserFloor

\* C15: a commit tap in AwaitingPlacement whose frame yields a hit result
\* leaves the product group visible at the hit's horizontal location, the
\* ground plane visible at the hit position, the prompt and the reticle
\* hidden, the re-place button shown and the awaiting-placement flag clear.
CommitTapPlaces ==
  [][(/\ ev'.op = "select"
      /\ AwaitingPlacement
      /\ hitTestSource = "current"
      /\ hitTestResults # NoPoint)
       => /\ productGroupVisible'
          /\ productGroupPosition'[1] = hitTestResults[1]
          /\ productGroupPosition'[3] = hitTestResults[3]
          /\ floor'.position = hitTestResults
          /\ floor'.visible
          /\ placementMessage' = "none"
          /\ placementReticle' = "hidden"
          /\ placeAgainButton' = "block"
          /\ ~isPlacingProduct']_vars

CommitTapPlaced ==
  /\ ev.op = "select"
  /\ Placed
  /\ productGroupVisible
  /\ productGroupPosition[1] = 1
  /\ floor.position = <<1, 1, 0>>
  /\ placeAgainButton = "block"

\* C16: a commit tap in AwaitingPlacement with no hit-test handle or no hit
\* result changes nothing: still awaiting placement, the product group
\* hidden where it was, the prompt shown and the commit-tap listener armed.
CommitTapWithoutHitIsNoOp ==
  [][(/\ ev'.op = "select"
      /\ AwaitingPlacement
      /\ (hitTestSource = Null \/ hitTestResults = NoPoint))
       => /\ isPlacingProduct'
          /\ ~productGroupVisible'
          /\ productGroupPosition' = productGroupPosition
          /\ placementMessage' = "block"
          /\ selectListeners' = selectListeners
          /\ selectListeners' > 0]_vars

CommitTapMissed ==
  /\ ev.op = "select"
  /\ AwaitingPlacement
  /\ hitTestSource = Null
  /\ hitTestResults # NoPoint
  /\ ~productGroupVisible
  /\ selectListeners = 1

\* C17: a re-place request in Placed hides the product group, returns to
\* AwaitingPlacement and leaves exactly one commit-tap listener armed.
RePlaceReturnsToAwaiting ==
  [][(ev'.op = "placeAgain" /\ Placed)
       => /\ ~productGroupVisible'
          /\ isPlacingProduct'
          /\ isARMode'
          /\ selectListeners' = 1]_vars

\* a second cycle: the group stands where an earlier commit put it
RePlaceRequested ==
  /\ ev.op = "placeAgain"
  /\ AwaitingPlacement
  /\ ~productGroupVisible
  /\ productGroupPosition # ZeroVector
  /\ selectListeners = 1

\* C18: while an AR session is awaiting a commit tap the product group is
\* hidden.
HiddenWhileAwaitingPlacement == AwaitingPlacement => ~productGroupVisible

LoadedWhileAwaitingPlacement ==
  /\ ev.op = "loadModel"
  /\ AwaitingPlacement
  /\ ~productGroupVisible
  /\ hitTestSource = "current"

\* C19: a displayed rotate-left or rotate-right button implies an AR session
\* in which the model has been placed.
RotationButtonsOnlyWhenPlaced ==
  (rotateLeftBtn = "block" \/ rotateRightBtn = "block") => Placed

RotationButtonUsed ==
  /\ ev.op = "rotateModel"
  /\ rotateLeftBtn = "block"
  /\ rotateRightBtn = "block"
  /\ productGroupRotationY # 0

NoDuplicates(list) ==
  \A m, n \in 1..Len(list) : list[m] = list[n] => m = n

\* C20: the draggable list of the interaction core is the registry's value
\* list, as long as the number of names registered since the latest clear,
\* without duplicates, and made of children of the product group.
RegistryConsistent ==
  /\ draggableObjects = loadedModels
  /\ Len(draggableObjects) = Cardinality(hNames)
  /\ NoDuplicates(draggableObjects)
  /\ \A n \in 1..Len(draggableObjects) :
       draggableObjects[n] \in productGroupChildren

\* a name was registered twice, cleared and registered again
RegistryReloadedAndCleared ==
  /\ ev.op = "clearExistingModels"
  /\ draggableObjects = << >>
  /\ "blade.2" \in created
  /\ "frame" \in created

\* C21: when the loader reports an error for a load, the load's promise is
\* rejected and the registry, the children of the product group and the
\* core's draggable list are what they were.
LoadFailureRegistersNothing ==
  [][(ev'.op = "loadModelError")
       => /\ loadResult' = "rejected"
          /\ UNCHANGED << loadedModels, productGroupChildren,
                          draggableObjects >>]_vars

\* a load failed after another load of its batch had registered a model
LoadFailedAfterSuccess ==
  /\ ev.op = "loadModelError"
  /\ loadResult = "rejected"
  /\ Len(loadedModels) = 1
  /\ draggableObjects = loadedModels
  /\ batches = << >>

\* C22: every failed model load, in an upload batch or in a 'Load Selected'
\* batch, and every failed catalog fetch shows the user an alert.
EveryFailureIsAlerted ==
  [][(ev'.op \in {"loadModelError", "browseError"})
       => alerts' = alerts + 1]_vars

\* C23: outside AR a touch-move changes the product group's yaw only while
\* the interaction core has no drag session; a second finger added during a
\* one-finger drag does not turn the product group.
TwoFingerYawOnlyWithoutDrag ==
  [][(ev'.op = "touchMove" /\ ~isARMode /\ isDragging)
       => productGroupRotationY' = productGroupRotationY]_vars

\* the controller of the coming event holds the XR selection
HoldsSelection(controller) ==
  selectedObject # Null /\ activeController = controller

\* C24: a mouse-up or touch-end that arrives while no drag session is
\* active, and a select-release or squeeze-release of a controller that
\* holds no selection, change none of the selected object, the active
\* controller, the drag flag, rotation mode and the orbit-control state.
ReleaseWithoutSessionIsNoOp ==
  [][(\/ ev'.op \in ReleaseOps /\ ~isDragging
      \/ ev'.op \in {"selectEnd", "squeezeEnd"} /\ ~HoldsSelection(ev'.ctrl))
       => UNCHANGED << selectedObject, activeController, isDragging,
                       rotationMode, orbitControls, appOrbitControls >>]_vars

\* the scale the frame applies to the controller's displacement
TranslationScale == IF isMobile THEN 2 ELSE 1

\* C25: after every translation-mode frame of an open controller selection
\* the object's position is its position at the select-press plus k times
\* the controller's displacement since the select-press, k being 2 on mobile
\* form factors and 1 otherwise.
TranslationFollowsController ==
  (/\ ev.op = "frame"
   /\ XRManipulation
   /\ ~rotationMode
   /\ hSel.obj = selectedObject)
    => position[selectedObject]
         = AddVectors(hSel.pre,
             MultiplyScalar(
               SubVectors(controllerPosition[activeController], hSel.c0),
               TranslationScale))
\* C26: whenever rotation mode is on during a controller manipulation, the
\* stored start-controller orientation is the one the active controller had
\* when rotation mode was entered, whichever controller sent the
\* squeeze-press.
SnapshotIsOfActiveController ==
  (rotationMode /\ XRManipulation)
    => startControllerQuaternion = hRot.c0

\* C27: a rotation-mode frame leaves the selected object's position as it
\* was, and a translation-mode frame moves it by k times the controller's
\* displacement since the previous frame, rotation-mode frames included.
RotationModeMovementNotApplied ==
  [][(ev'.op = "frame" /\ XRManipulation /\ hSel.obj = selectedObject)
       => position'[selectedObject]
            = IF rotationMode THEN position[selectedObject]
              ELSE AddVectors(position[selectedObject],
                     MultiplyScalar(
                       SubVectors(controllerPosition[activeController],
                                  hSel.prev),
                       TranslationScale))]_vars

\* a mouse move or a one-finger touch move that reaches handleDrag
HandleDragMove ==
  /\ isDragging
  /\ selectedObject # Null
  /\ \E x \in ClientXs, y \in ClientYs :
       \/ OnMouseMove(x, y) /\ AppIdle
       \/ \E a \in TouchAngles : TouchMoveEvent(1, x, y, a)

\* C28: a pointer or touch move of a drag session changes the selected
\* object's position only: its orientation and scale, the position,
\* orientation and scale of every other object and the product group's
\* position and yaw are what they were.
DragMovesOnlySelectedObject ==
  [][HandleDragMove
       => /\ \A o \in Containers \ {selectedObject} :
               position'[o] = position[o]
          /\ UNCHANGED << quaternion, scale, productGroupPosition,
                          productGroupRotationY >>]_vars

\* a one-finger drag moved the blade, with a second part loaded and the
\* two-finger gesture armed
DraggedOneOfTwo ==
  /\ ev.op = "touchMove"
  /\ isDragging
  /\ selectedObject = "blade"
  /\ position["blade"] # ZeroVector
  /\ position["frame"] = ZeroVector
  /\ Includes(draggableObjects, "frame")
  /\ lastTouchAngle # NoNumber

\* the chain of the current session has ended without a hit-test handle
NegotiationFailed ==
  xrSession /\ hitTestRequests = {} /\ hitTestSource = Null

\* C29: when 'local-floor' is refused and 'viewer' is granted the chain
\* still requests a hit-test source, whose handle it stores; once the chain
\* has failed the hit-test handle stays null, the reticle is not visible and
\* a commit tap changes nothing of the placement.
FallbackOrPlacementUnavailable ==
  /\ [][(ev'.op = "referenceSpace" /\ "viewer" \in hitTestRequests)
          => "source" \in hitTestRequests']_vars
  /\ [][(ev'.op = "hitTestSource") => hitTestSource' = "current"]_vars
  /\ [][(NegotiationFailed /\ xrSession')
          => hitTestSource' = Null]_vars
  /\ [][(NegotiationFailed /\ ev'.op = "select")
          => UNCHANGED << isPlacingProduct, productGroupVisible,
                          productGroupPosition, floor, placementMessage,
                          placeAgainButton, selectListeners >>]_vars
  /\ [](NegotiationFailed => placementReticle # "visible")
\* C30: the reticle is visible only while an AR session is active and
\* awaiting placement.
ReticleOnlyWhileAwaiting ==
  placementReticle = "visible" => (xrSession /\ AwaitingPlacement)

\* C31: a displayed 'Place Again' button implies an active AR session in
\* which the model has been placed.
PlaceAgainOnlyWhenPlaced ==
  placeAgainButton = "block" => (xrSession /\ Placed)

\* C32: whenever no AR session is active the product group is visible.
VisibleOutsideSession == ~xrSession => productGroupVisible

OneCommitTapListenerWhileAwaiting ==
  /\ selectListeners <= 1
  /\ xrSession => (selectListeners = 1 <=> AwaitingPlacement)

\* a commit placed the group, a re-place request followed, and the tap
\* after it found no hit
TapMissedAfterRePlace ==
  /\ ev.op = "select"
  /\ xrSession
  /\ AwaitingPlacement
  /\ productGroupPosition # ZeroVector
  /\ selectListeners = 1

\* C35: the children of the product group are exactly the registry's
\* values, after every successful load and every clearExistingModels.
NoUnregisteredPartInScene ==
  productGroupChildren = {loadedModels[n] : n \in 1..Len(loadedModels)}

\* C36: when the batch requested last was requested while an earlier batch
\* was still running, then once every load has settled the registry, the
\* product group and the draggable list hold only objects that the loads
\* of that last batch created.
OnlyLatestBatchAfterOverlap ==
  (batches = << >> /\ hBatch.overlapped)
    => /\ productGroupChildren \subseteq hBatch.objs
       /\ \A n \in 1..Len(loadedModels) : loadedModels[n] \in hBatch.objs
       /\ \A n \in 1..Len(draggableObjects) :
            draggableObjects[n] \in hBatch.objs

\* C37: once no load batch is running and no catalog fetch is under way,
\* the loading overlay is hidden, whether the loads of the batches
\* succeeded or failed.
OverlayHiddenAfterBatches ==
  (batches = << >> /\ browseModal # "fetching") => loadingOverlay = "none"

PointerMoveOps == {"mouseMove", "touchMove"}

\* C38: with the host flag and a channel, every pointer move that
\* translates the selected object emits exactly one transform update, which
\* carries the object's name and its position, rotation and scale after the
\* move; without the host flag or without a channel nothing is ever emitted.
HostNotification ==
  /\ [][(ev'.op \in PointerMoveOps /\ position' # position)
          => emitted' =
               IF isHost /\ socket
               THEN << [customId |-> NameOf(selectedObject),
                        position |-> position'[selectedObject],
                        rotation |-> quaternion'[selectedObject],
                        scale |-> scale'[selectedObject]] >>
               ELSE << >>]_vars
  /\ []((~isHost \/ ~socket) => emitted = << >>)

\* the host has dragged the second of two parts away from where it loaded
HostEmittedTransform ==
  /\ isHost
  /\ socket
  /\ ev.op = "mouseMove"
  /\ selectedObject = "frame"
  /\ Len(emitted) = 1
  /\ emitted[1].customId = "frame"
  /\ emitted[1].position = position["frame"]
  /\ position["frame"] # ZeroVector

\* C39: right after the Reset button is pressed every part of the product
\* group has its load-time position, orientation and scale in the scene:
\* its own transform is the one it was created with, and so is the
\* transform of the product group that carries it.
ResetRestoresLoadTimePose ==
  (ev.op = "reset")
    => /\ \A o \in productGroupChildren :
            /\ position[o] = ZeroVector
            /\ quaternion[o] = IdentityQuaternion
            /\ scale[o] = 1
       /\ productGroupRotationY = 0
       /\ productGroupPosition = ZeroVector

PendingIntervals == {n \in 1..Len(modalCalls) : modalCalls[n].interval}

PendingTimeouts == {n \in 1..Len(modalCalls) : modalCalls[n].timeout}

\* C40: at most one countdown interval and one auto-close timeout are
\* pending at a time; the auto-timeout callback of a modal runs at most
\* once, and never after a button, hideModal or a later showModal has put
\* that modal away.
NoStaleModalTimer ==
  /\ [](Cardinality(PendingIntervals) <= 1)
  /\ [](Cardinality(PendingTimeouts) <= 1)
  /\ [](\A n \in 1..MaxModals : hModal.runs[n] <= 1)
  /\ [][\A n \in 1..MaxModals :
          hModal.runs'[n] > hModal.runs[n] => n > hModal.dismissed]_vars

\* a modal with a countdown was replaced while its timers were pending,
\* and the timeout of the modal that replaced it has run its callback
ReplacedModalTimedOut ==
  /\ ev.op = "modalTimeout"
  /\ Len(modalCalls) >= 2
  /\ modalCalls[1].timeLeft # NoNumber
  /\ hModal.runs[1] = 0
  /\ hModal.runs[2] = 1
  /\ modalOverlay.display = "none"

====
